---- MODULE Spec2Model ----
(***************************************************************************)
(* A model of pydicom's Dataset (src/pydicom/dataset.py): the tag-keyed    *)
(* element store with lazy decoding of raw elements, private-creator       *)
(* attribution on write, the keyword view, and the walk/iterall traversal. *)
(*                                                                         *)
(* A Dataset value is a record [dict, parent_encoding]: dict is the        *)
(* underlying Python dict (a function from stored keys to stored objects), *)
(* parent_encoding is self._parent_encoding.  A stored object is a record  *)
(*   [cls, tag, VR, value, items, private_creator]                         *)
(* where cls is the Python class tested by isinstance ("DataElement",      *)
(* "RawDataElement" or "other"), value is the text payload (<<>> is None,  *)
(* <<bytes>> is an undecoded payload, <<text, encoding>> a decoded one)    *)
(* and items is the list of nested Datasets of a sequence (VR = "SQ").     *)
(* Every operation is a pure operator that returns the store it leaves     *)
(* behind, what it returned, the exception it raised and the raw-to-       *)
(* decoded conversions it ran; the actions apply them to the root store.   *)
(***************************************************************************)
EXTENDS Integers, Sequences, FiniteSets, TLC

VARIABLES ds, attrs, last
vars == <<ds, attrs, last>>

None == <<>>
NoTag == -1

(* ---------------- pydicom.tag ---------------- *)
Tag(g, e) == g * 65536 + e
group(t) == t \div 65536
elem(t) == t % 65536
is_private(t) == group(t) % 2 = 1

SpecificCharacterSet == Tag(8, 5)
ReferencedImageSequence == Tag(8, 4416)
PrivateGroupLength == Tag(9, 0)
PrivateCreator == Tag(9, 16)
PrivateElement == Tag(9, 4097)
PrivateSequence == Tag(9, 4098)
PatientName == Tag(16, 16)

(* ---------------- pydicom.charset ---------------- *)
default_encoding == "iso8859"

\* an empty or missing value is false in a Python condition
Falsy(v) == v = None \/ v[1] = ""

convert_encodings(v) ==
    IF v[1] = "ISO_IR 100" THEN "latin_1" ELSE default_encoding

(* ---------------- pydicom.datadict ---------------- *)
tag_for_name(name) ==
    CASE name = "SpecificCharacterSet" -> SpecificCharacterSet
      [] name = "PatientName" -> PatientName
      [] name = "ReferencedImageSequence" -> ReferencedImageSequence
      [] OTHER -> NoTag

dictionaryVR(tag) ==
    CASE tag = SpecificCharacterSet -> "CS"
      [] tag = PatientName -> "PN"
      [] tag = ReferencedImageSequence -> "SQ"
      [] OTHER -> "UN"

(* ---------------- pydicom.dataelem ---------------- *)
\* DataElement(tag, VR, value); the value of a sequence is its list of Datasets
DataElement(tag, VR, value) ==
    [cls |-> "DataElement", tag |-> tag, VR |-> VR,
     value |-> IF VR = "SQ" THEN None ELSE value,
     items |-> IF VR = "SQ" THEN value ELSE <<>>,
     private_creator |-> None]

RawDataElement(tag, VR, value) ==
    [cls |-> "RawDataElement", tag |-> tag, VR |-> VR, value |-> value,
     items |-> <<>>, private_creator |-> None]

\* data_element.value = value
set_value(data_element, value) ==
    IF data_element.VR = "SQ" THEN [data_element EXCEPT !.items = value]
    ELSE [data_element EXCEPT !.value = value]

\* an object that is neither a DataElement nor a RawDataElement
NotAnElement ==
    [cls |-> "other", tag |-> NoTag, VR |-> "", value |-> None,
     items |-> <<>>, private_creator |-> None]

\* the conversion of a raw element: the payload decoded with the encoding
DataElement_from_raw(raw, encoding) ==
    [raw EXCEPT !.cls = "DataElement", !.value = <<raw.value[1], encoding>>]

(* ---------------- pydicom.charset.decode ---------------- *)
\* the VRs of text: the values pydicom.charset.decode changes
text_VRs == {"PN", "LO", "SH", "ST", "LT", "UT"}

\* pydicom.charset.decode(data_element, dicom_character_set): the text of a
\* text-bearing value is decoded with the encoding, any other value is left
charset_decode(data_element, dicom_character_set) ==
    IF data_element.VR \in text_VRs /\ data_element.value # None
    THEN [data_element EXCEPT
             !.value = <<data_element.value[1], dicom_character_set>>]
    ELSE data_element

(* ---------------- pydicom.filereader ---------------- *)
\* the payload the source file holds for a deferred element
read_deferred_data_element(raw) == [raw EXCEPT !.value = <<"Doe">>]

(* ---------------- Python str ---------------- *)
\* a str is the sequence of its characters; the letters in code point order
Letters ==
    <<"A", "B", "C", "D", "E", "F", "G", "H", "I", "J", "K", "L", "M",
      "N", "O", "P", "Q", "R", "S", "T", "U", "V", "W", "X", "Y", "Z",
      "a", "b", "c", "d", "e", "f", "g", "h", "i", "j", "k", "l", "m",
      "n", "o", "p", "q", "r", "s", "t", "u", "v", "w", "x", "y", "z">>

ord(c) == CHOOSE i \in 1..Len(Letters) : Letters[i] = c

\* str.lower()
lower(x) ==
    [i \in 1..Len(x) |->
        IF ord(x[i]) <= Len(Letters) \div 2
        THEN Letters[ord(x[i]) + Len(Letters) \div 2]
        ELSE x[i]]

\* x.find(f) != -1
found(x, f) ==
    \E i \in 0..(Len(x) - Len(f)) : SubSeq(x, i + 1, i + Len(f)) = f

\* x <= y for str
RECURSIVE str_le(_, _)
str_le(x, y) ==
    IF x = <<>> THEN TRUE
    ELSE IF y = <<>> THEN FALSE
    ELSE IF Head(x) = Head(y) THEN str_le(Tail(x), Tail(y))
    ELSE ord(Head(x)) < ord(Head(y))

\* sorted() of a list of str
RECURSIVE insert_str(_, _)
insert_str(x, s) ==
    IF s = <<>> THEN <<x>>
    ELSE IF str_le(x, Head(s)) THEN <<x>> \o s
    ELSE <<Head(s)>> \o insert_str(x, Tail(s))

RECURSIVE sorted_str(_)
sorted_str(s) ==
    IF s = <<>> THEN <<>> ELSE insert_str(Head(s), sorted_str(Tail(s)))

\* the tags of a repeating group the dictionary has one entry for
OverlayData == Tag(24576, 12288)
OverlayData2 == Tag(24578, 12288)

\* pydicom.datadict.all_names_for_tag: the keyword of the tag's dictionary
\* entry, blank for a tag without one
all_names_for_tag(tag) ==
    CASE tag = SpecificCharacterSet -> <<<<"S", "p", "e", "c", "i", "f", "i", "c", "C", "h", "a", "r", "a", "c", "t", "e", "r", "S", "e", "t">>>>
      [] tag = PatientName -> <<<<"P", "a", "t", "i", "e", "n", "t", "N", "a", "m", "e">>>>
      [] tag \in {OverlayData, OverlayData2} -> <<<<"O", "v", "e", "r", "l", "a", "y", "D", "a", "t", "a">>>>
      [] OTHER -> << <<>> >>

(* ---------------- results of the operations ---------------- *)
\* self after the call, the returned object, the exception, the conversions
Res(self, ret, err, conv) == [ds |-> self, ret |-> ret, err |-> err, conv |-> conv]

Put(d, k, v) == [x \in (DOMAIN d) \cup {k} |-> IF x = k THEN v ELSE d[x]]
Drop(d, k) == [x \in (DOMAIN d) \ {k} |-> d[x]]
EmptyDict == [x \in {} |-> NotAnElement]

Dataset(d, parent_encoding) == [dict |-> d, parent_encoding |-> parent_encoding]

(* ---------------- Dataset: item access ---------------- *)
\* A call's result is handed on as an argument of the operator that models
\* the lines after the call, so each call is written once.
RECURSIVE getitem(_, _), setitem(_, _, _), character_set(_), getattr(_, _)

\* dict.__setitem__(self, tag, data_element)
dict_setitem(self, tag, data_element) ==
    [self EXCEPT !.dict = Put(self.dict, tag, data_element)]

\* Dataset.__contains__ for a tag-like key
contains_tag(self, tag) == tag \in DOMAIN self.dict

\* the conversions run before a call, put before those of its result
after(conv, r) == [r EXCEPT !.conv = conv \o r.conv]

\* __setitem__ without line 656's assignment of private_creator
setitem_stamp_none(tag, data_element, cr) ==
    IF cr.err # "none" THEN Res(cr.ds, None, cr.err, cr.conv)
    ELSE Res(dict_setitem(cr.ds, tag, data_element), None, "none", cr.conv)

\* Dataset.__setitem__, lines 656-657: cr is the result of
\* self[private_creator_tag]
setitem_stamp(tag, data_element, cr) ==
    IF cr.err # "none" THEN Res(cr.ds, None, cr.err, cr.conv)
    ELSE Res(dict_setitem(cr.ds, tag,
                 [data_element EXCEPT !.private_creator = cr.ret.value]),
             None, "none", cr.conv)

\* Dataset.__setitem__, lines 654-657 for a raw element: cs is the result of
\* self._character_set
setitem_convert(tag, private_creator_tag, value, cs) ==
    IF cs.err # "none" THEN Res(cs.ds, None, cs.err, cs.conv)
    ELSE after(cs.conv \o <<tag>>,
               setitem_stamp(tag, DataElement_from_raw(value, cs.ret),
                             getitem(cs.ds, private_creator_tag)))

\* Dataset.__setitem__, lines 647-657: private creator attribution
setitem_private(self, tag, value) ==
    LET private_block == elem(tag) \div 256
        private_creator_tag == Tag(group(tag), private_block)
    IN  IF contains_tag(self, private_creator_tag) /\ tag # private_creator_tag
        THEN IF value.cls = "RawDataElement"
             THEN setitem_convert(tag, private_creator_tag, value,
                                  character_set(self))
             ELSE setitem_stamp(tag, value, getitem(self, private_creator_tag))
        ELSE Res(dict_setitem(self, tag, value), None, "none", <<>>)

\* __setitem__ without the check of lines 644-645: the element goes under
\* its own tag whatever the key
setitem_unchecked(self, key, value) ==
    IF value.cls \notin {"DataElement", "RawDataElement"}
    THEN Res(self, None, "TypeError", <<>>)
    ELSE IF is_private(value.tag) THEN setitem_private(self, value.tag, value)
    ELSE Res(dict_setitem(self, value.tag, value), None, "none", <<>>)

\* Dataset.__setitem__
setitem(self, key, value) ==
    IF value.cls \notin {"DataElement", "RawDataElement"}
    THEN Res(self, None, "TypeError", <<>>)
    ELSE IF key # value.tag THEN Res(self, None, "ValueError", <<>>)
    ELSE IF is_private(value.tag) THEN setitem_private(self, value.tag, value)
    ELSE Res(dict_setitem(self, value.tag, value), None, "none", <<>>)

\* Dataset.__getitem__, line 316: st is the result of the assignment of
\* line 315
getitem_stored(tag, st) ==
    IF st.err # "none" THEN Res(st.ds, NotAnElement, st.err, st.conv)
    ELSE Res(st.ds, st.ds.dict[tag], "none", st.conv)

\* __getitem__ without line 315's assignment: the conversion is handed out
\* and the raw element stays in the dict
getitem_convert_unstored(tag, data_elem, cs) ==
    IF cs.err # "none" THEN Res(cs.ds, NotAnElement, cs.err, cs.conv)
    ELSE Res(cs.ds, DataElement_from_raw(data_elem, cs.ret), "none",
             cs.conv \o <<tag>>)

\* __getitem__ that puts the conversion into the dict directly, not through
\* __setitem__ as line 315 does
getitem_convert_direct(tag, data_elem, cs) ==
    IF cs.err # "none" THEN Res(cs.ds, NotAnElement, cs.err, cs.conv)
    ELSE after(cs.conv \o <<tag>>,
               getitem_stored(tag,
                   Res(dict_setitem(cs.ds, tag,
                                    DataElement_from_raw(data_elem, cs.ret)),
                       None, "none", <<>>)))

\* Dataset.__getitem__, lines 314-316: cs is the character set of lines
\* 310-313
getitem_convert(tag, data_elem, cs) ==
    IF cs.err # "none" THEN Res(cs.ds, NotAnElement, cs.err, cs.conv)
    ELSE after(cs.conv \o <<tag>>,
               getitem_stored(tag,
                   setitem(cs.ds, tag, DataElement_from_raw(data_elem, cs.ret))))

\* Dataset.__getitem__
getitem(self, key) ==
    IF key \notin DOMAIN self.dict
    THEN Res(self, NotAnElement, "KeyError", <<>>)
    ELSE IF self.dict[key].cls = "RawDataElement"
    THEN getitem_convert(key,
             IF self.dict[key].value = None
             THEN read_deferred_data_element(self.dict[key])
             ELSE self.dict[key],
             IF key # Tag(8, 5) THEN character_set(self)
             ELSE Res(self, default_encoding, "none", <<>>))
    ELSE Res(self, self.dict[key], "none", <<>>)

\* self[tag].value, r the result of self[tag]
value_of(r) ==
    IF r.err # "none" THEN Res(r.ds, None, r.err, r.conv)
    ELSE Res(r.ds, r.ret.value, "none", r.conv)

\* Dataset.__getattr__: the value of the element a keyword names
getattr(self, name) ==
    IF tag_for_name(name) = NoTag THEN Res(self, None, "AttributeError", <<>>)
    ELSE IF ~contains_tag(self, tag_for_name(name))
    THEN Res(self, None, "AttributeError", <<>>)
    ELSE value_of(getitem(self, tag_for_name(name)))

\* Dataset.get, lines 247-250: r is the result of getattr(self, key)
get_default(r, default) ==
    IF r.err = "AttributeError" THEN Res(r.ds, default, "none", r.conv) ELSE r

\* Dataset.get for a keyword key
get_name(self, key, default) == get_default(getattr(self, key), default)

\* _character_set that never looks at the declaration it read
character_set_of_inherited(self, r) ==
    IF r.err # "none" THEN Res(r.ds, "", r.err, r.conv)
    ELSE Res(r.ds, self.parent_encoding, "none", r.conv)

\* Dataset._character_set, lines 289-294: r is the result of line 287
character_set_of(self, r) ==
    IF r.err # "none" THEN Res(r.ds, "", r.err, r.conv)
    ELSE IF Falsy(r.ret) THEN Res(r.ds, self.parent_encoding, "none", r.conv)
    ELSE Res(r.ds, convert_encodings(r.ret), "none", r.conv)

\* Dataset._character_set
character_set(self) ==
    character_set_of(self, get_name(self, "SpecificCharacterSet", None))

(* ---------------- Dataset: the rest of the mapping interface ---------------- *)
\* Dataset.add
add(self, data_element) ==
    IF data_element.cls = "other" THEN Res(self, None, "AttributeError", <<>>)
    ELSE setitem(self, data_element.tag, data_element)

\* Dataset.__delitem__
delitem(self, key) ==
    IF key \in DOMAIN self.dict
    THEN Res([self EXCEPT !.dict = Drop(self.dict, key)], None, "none", <<>>)
    ELSE Res(self, None, "KeyError", <<>>)

\* get_item that reads every element as __getitem__ does
get_item_converting(self, key) == getitem(self, key)

\* Dataset.get_item
get_item(self, key) ==
    LET tag == key
    IN  IF tag \notin DOMAIN self.dict
        THEN Res(self, NotAnElement, "KeyError", <<>>)
        ELSE LET data_elem == self.dict[tag]
             IN  IF data_elem.cls = "RawDataElement" /\ data_elem.value = None
                 THEN getitem(self, key)
                 ELSE Res(self, data_elem, "none", <<>>)

\* Dataset.__contains__ for a keyword
contains_name(self, name) ==
    LET tag == tag_for_name(name)
    IN  IF tag # NoTag /\ tag # 0 THEN tag \in DOMAIN self.dict ELSE FALSE

\* __setattr__ that stores the element it read without line 631's
\* data_element.value = value
setattr_existing_kept(tag, value, r) ==
    IF r.err # "none" THEN Res(r.ds, None, r.err, r.conv)
    ELSE after(r.conv, setitem(r.ds, tag, r.ret))

\* Dataset.__setattr__, lines 630-633: r is the result of self[tag]; the
\* element is changed in place and then assigned to its tag
setattr_existing(tag, value, r) ==
    IF r.err # "none" THEN Res(r.ds, None, r.err, r.conv)
    ELSE after(r.conv,
               setitem(dict_setitem(r.ds, tag, set_value(r.ret, value)),
                       tag, set_value(r.ret, value)))

\* Dataset.__setattr__ for a keyword of the dictionary
setattr_tag(self, tag, value) ==
    IF ~contains_tag(self, tag)
    THEN setitem(self, tag, DataElement(tag, dictionaryVR(tag), value))
    ELSE setattr_existing(tag, value, getitem(self, tag))

(* ---------------- sorted() and iteration ---------------- *)
RECURSIVE insert_sorted(_, _)
insert_sorted(x, s) ==
    IF s = <<>> THEN <<x>>
    ELSE IF x <= Head(s) THEN <<x>> \o s
    ELSE <<Head(s)>> \o insert_sorted(x, Tail(s))

RECURSIVE sorted(_)
sorted(s) == IF s = <<>> THEN <<>> ELSE insert_sorted(Head(s), sorted(Tail(s)))

\* the orders in which dict.keys() may list the keys
RECURSIVE Orders(_)
Orders(S) ==
    IF S = {} THEN {<<>>}
    ELSE UNION {{<<k>> \o o : o \in Orders(S \ {k})} : k \in S}

\* one order of dict.keys(): the hash order, here descending
RECURSIVE keys_of(_)
keys_of(S) ==
    IF S = {} THEN <<>>
    ELSE LET m == CHOOSE k \in S : \A j \in S : j <= k
         IN  <<m>> \o keys_of(S \ {m})

keys(self) == keys_of(DOMAIN self.dict)

\* what was handed out before a call, put before what its result hands out
cons(out, conv, rest) ==
    Res(rest.ds, out \o rest.ret, rest.err, conv \o rest.conv)

\* the loop of Dataset.__iter__ over a tag list: yield self[tag]
RECURSIVE iter_tags(_, _)
iter_next(taglist, g) ==
    IF g.err # "none" THEN Res(g.ds, <<>>, g.err, g.conv)
    ELSE cons(<<g.ret>>, g.conv, iter_tags(g.ds, Tail(taglist)))

iter_tags(self, taglist) ==
    IF taglist = <<>> THEN Res(self, <<>>, "none", <<>>)
    ELSE iter_next(taglist, getitem(self, Head(taglist)))

\* __iter__ without line 361's sorted(): the keys as dict.keys() lists them
dataset_iter_unsorted(self, key_order) == iter_tags(self, key_order)

\* Dataset.__iter__, consumed to its end, dict.keys() listing in key_order
dataset_iter(self, key_order) == iter_tags(self, sorted(key_order))

(* ---------------- Dataset.dir ---------------- *)
\* dir, lines 228-229: the names of the tags in the order of self.items()
RECURSIVE dir_allnames(_)
dir_allnames(taglist) ==
    IF taglist = <<>> THEN <<>>
    ELSE all_names_for_tag(Head(taglist)) \o dir_allnames(Tail(taglist))

\* dir, line 231: [x for x in allnames if x]
RECURSIVE dir_nonblank(_)
dir_nonblank(allnames) ==
    IF allnames = <<>> THEN <<>>
    ELSE (IF Head(allnames) # <<>> THEN <<Head(allnames)>> ELSE <<>>)
         \o dir_nonblank(Tail(allnames))

\* dir, lines 233-237: the keys of matches after the loop over the filters
dir_matches(allnames, filters) ==
    {allnames[i] : i \in {j \in 1..Len(allnames) :
        \E k \in 1..Len(filters) :
            found(lower(allnames[j]), lower(filters[k]))}}

\* a set of str as a list, in some order
RECURSIVE listing(_)
listing(S) ==
    IF S = {} THEN <<>>
    ELSE LET x == CHOOSE y \in S : TRUE IN <<x>> \o listing(S \ {x})

\* Dataset.dir
dir(self, filters) ==
    IF filters # <<>>
    THEN sorted_str(listing(dir_matches(dir_nonblank(dir_allnames(keys(self))),
                                        filters)))
    ELSE sorted_str(dir_nonblank(dir_allnames(keys(self))))

(* ---------------- traversal: iterall and walk ---------------- *)
\* an element handed out by a traversal: the Dataset that holds it (the path
\* from the root: sequence tag, item number, ...) and the element
Visit(path, data_element) == [path |-> path, elem |-> data_element]

\* the nested Datasets of self[tag] replaced by the ones a traversal left;
\* an element deleted from self is no longer part of it
with_items(self, tag, items) ==
    IF tag \notin DOMAIN self.dict THEN self
    ELSE [self EXCEPT !.dict = Put(self.dict, tag,
                                   [self.dict[tag] EXCEPT !.items = items])]

RECURSIVE iterall(_, _), iterall_tags(_, _, _), iterall_items(_, _, _)

\* iterall, lines 692-694: r is what the i-th Dataset's iterall yields
iterall_item(sequence, i, path, r) ==
    IF r.err # "none"
    THEN Res([sequence EXCEPT ![i] = r.ds], r.ret, r.err, r.conv)
    ELSE cons(r.ret, r.conv,
              iterall_items([sequence EXCEPT ![i] = r.ds], i + 1, path))

\* for dataset in sequence: for elem in dataset.iterall(): yield elem
iterall_items(sequence, i, path) ==
    IF i > Len(sequence) THEN Res(sequence, <<>>, "none", <<>>)
    ELSE iterall_item(sequence, i, path, iterall(sequence[i], path \o <<i>>))

\* iterall yielding an element after the elements nested in it
iterall_rest_postorder(self, taglist, path, data_element, sub) ==
    IF sub.err # "none"
    THEN Res(with_items(self, data_element.tag, sub.ds),
             sub.ret \o <<Visit(path, data_element)>>, sub.err, sub.conv)
    ELSE cons(sub.ret \o <<Visit(path, data_element)>>, sub.conv,
              iterall_tags(with_items(self, data_element.tag, sub.ds),
                           Tail(taglist), path))

\* iterall after the nested Datasets of data_element were gone through (sub)
iterall_rest(self, taglist, path, data_element, sub) ==
    IF sub.err # "none"
    THEN Res(with_items(self, data_element.tag, sub.ds),
             <<Visit(path, data_element)>> \o sub.ret, sub.err, sub.conv)
    ELSE cons(<<Visit(path, data_element)>> \o sub.ret, sub.conv,
              iterall_tags(with_items(self, data_element.tag, sub.ds),
                           Tail(taglist), path))

\* iterall, lines 689-694: g is the result of self[tag] in __iter__
iterall_elem(taglist, path, g) ==
    IF g.err # "none" THEN Res(g.ds, <<>>, g.err, g.conv)
    ELSE after(g.conv,
               iterall_rest(g.ds, taglist, path, g.ret,
                   IF g.ret.VR = "SQ"
                   THEN iterall_items(g.ret.items, 1,
                                      path \o <<Head(taglist)>>)
                   ELSE Res(g.ret.items, <<>>, "none", <<>>)))

\* the loop of iterall over the tag list of Dataset.__iter__
iterall_tags(self, taglist, path) ==
    IF taglist = <<>> THEN Res(self, <<>>, "none", <<>>)
    ELSE iterall_elem(taglist, path, getitem(self, Head(taglist)))

\* Dataset.iterall, consumed to its end
iterall(self, path) == iterall_tags(self, sorted(keys(self)), path)

\* remove_private_tags.RemoveCallback
RemoveCallback(dataset, data_element) ==
    IF is_private(data_element.tag)
    THEN delitem(dataset, data_element.tag)
    ELSE Res(dataset, None, "none", <<>>)

\* a callback that deletes the element it is handed when its tag is in tags
DeleteCallback(tags, dataset, data_element) ==
    IF data_element.tag \in tags
    THEN delitem(dataset, data_element.tag)
    ELSE Res(dataset, None, "none", <<>>)

\* a callback that, handed an element whose tag is in tags, assigns a new
\* PatientName to the Dataset
InsertCallback(tags, dataset, data_element) ==
    IF data_element.tag \in tags
    THEN setitem(dataset, PatientName,
                 DataElement(PatientName, "PN", <<"New", "str">>))
    ELSE Res(dataset, None, "none", <<>>)

\* a callback that, handed an element whose tag is in tags, deletes the
\* PatientName of the Dataset if there is one
DeleteNextCallback(tags, dataset, data_element) ==
    IF data_element.tag \in tags /\ contains_tag(dataset, PatientName)
    THEN delitem(dataset, PatientName)
    ELSE Res(dataset, None, "none", <<>>)

\* the callback's application of pydicom.charset.decode: to the element at
\* tag of the Dataset at path (relative to the Dataset decode was called
\* on), with the encoding dicom_character_set
Applied(path, tag, dicom_character_set) ==
    [path |-> path, tag |-> tag, encoding |-> dicom_character_set]

\* the applications in log, made on the i-th Dataset of the sequence at tag
under(tag, i, log) ==
    [k \in 1..Len(log) |->
        [log[k] EXCEPT !.path = <<tag, i>> \o log[k].path]]

RECURSIVE decode(_), decode_items(_, _, _)

\* r is the result of the i-th Dataset's decode
decode_item(sequence, i, tag, r) ==
    IF r.err # "none"
    THEN Res([sequence EXCEPT ![i] = r.ds], under(tag, i, r.ret), r.err, r.conv)
    ELSE cons(under(tag, i, r.ret), r.conv,
              decode_items([sequence EXCEPT ![i] = r.ds], i + 1, tag))

\* line 159: [dset.decode() for dset in data_element.value]
decode_items(sequence, i, tag) ==
    IF i > Len(sequence) THEN Res(sequence, <<>>, "none", <<>>)
    ELSE decode_item(sequence, i, tag, decode(sequence[i]))

\* line 159 for the sequence data_element of dataset: its Datasets are
\* changed in place (sub)
decode_sequence(dataset, data_element, sub) ==
    Res(with_items(dataset, data_element.tag, sub.ds), sub.ret, sub.err,
        sub.conv)

\* decode.decode_callback, lines 157-161; data_element is changed in place
decode_callback(dicom_character_set, dataset, data_element) ==
    IF data_element.VR = "SQ"
    THEN decode_sequence(dataset, data_element,
                         decode_items(data_element.items, 1, data_element.tag))
    ELSE Res([dataset EXCEPT !.dict[data_element.tag] =
                 charset_decode(data_element, dicom_character_set)],
             <<Applied(<<>>, data_element.tag, dicom_character_set)>>,
             "none", <<>>)

\* callback(self, data_element) for the callbacks of the model
call(callback, dataset, data_element) ==
    CASE callback.kind = "RemoveCallback" ->
            RemoveCallback(dataset, data_element)
      [] callback.kind = "delete" ->
            DeleteCallback(callback.tags, dataset, data_element)
      [] callback.kind = "insert" ->
            InsertCallback(callback.tags, dataset, data_element)
      [] callback.kind = "delete_next" ->
            DeleteNextCallback(callback.tags, dataset, data_element)
      [] callback.kind = "decode_callback" ->
            decode_callback(callback.dicom_character_set, dataset,
                            data_element)
      [] OTHER -> Res(dataset, None, "none", <<>>)

\* an invocation of walk's callback: callback(dataset, data_element), made
\* by the walk of the Dataset at path; ret is what the callback did
Called(path, dataset, data_element) ==
    [path |-> path, store |-> dataset, elem |-> data_element, ret |-> None]

\* the invocation called after it returned cb
returned(called, cb) == [called EXCEPT !.ret = cb.ret]

RECURSIVE walk(_, _, _, _), walk_tags(_, _, _, _, _), walk_items(_, _, _, _)

\* walk, lines 723-724: r is the result of the i-th Dataset's walk
walk_item(sequence, i, callback, path, r) ==
    IF r.err # "none"
    THEN Res([sequence EXCEPT ![i] = r.ds], r.ret, r.err, r.conv)
    ELSE cons(r.ret, r.conv,
              walk_items([sequence EXCEPT ![i] = r.ds], i + 1, callback, path))

\* for dataset in sequence: dataset.walk(callback)
walk_items(sequence, i, callback, path) ==
    IF i > Len(sequence) THEN Res(sequence, <<>>, "none", <<>>)
    ELSE walk_item(sequence, i, callback, path,
                   walk(sequence[i], callback, TRUE, path \o <<i>>))

\* walk after the nested Datasets of data_element were walked (sub)
walk_rest(self, taglist, callback, recursive, path, called, sub) ==
    IF sub.err # "none"
    THEN Res(with_items(self, called.elem.tag, sub.ds),
             <<called>> \o sub.ret, sub.err, sub.conv)
    ELSE cons(<<called>> \o sub.ret, sub.conv,
              walk_tags(with_items(self, called.elem.tag, sub.ds),
                        Tail(taglist), callback, recursive, path))

\* walk without line 721's "tag in self": a sequence is walked into
\* although the callback deleted it
walk_called_unchecked(taglist, callback, recursive, path, called, cb) ==
    IF cb.err # "none"
    THEN Res(cb.ds, <<called>>, cb.err, <<>>)
    ELSE IF recursive /\ called.elem.VR = "SQ"
    THEN walk_rest(cb.ds, taglist, callback, recursive, path, called,
                   walk_items(called.elem.items, 1, callback,
                              path \o <<Head(taglist)>>))
    ELSE cons(<<called>>, <<>>,
              walk_tags(cb.ds, Tail(taglist), callback, recursive, path))

\* walk, lines 720-724: cb is the result of the invocation called; the
\* Datasets walked are those of data_element as the callback left them
walk_called(taglist, callback, recursive, path, called, cb) ==
    IF cb.err # "none"
    THEN Res(cb.ds, <<returned(called, cb)>>, cb.err, cb.conv)
    ELSE IF recursive /\ contains_tag(cb.ds, Head(taglist))
            /\ called.elem.VR = "SQ"
    THEN after(cb.conv,
               walk_rest(cb.ds, taglist, callback, recursive, path,
                         returned(called, cb),
                         walk_items(cb.ds.dict[Head(taglist)].items, 1,
                                    callback, path \o <<Head(taglist)>>)))
    ELSE cons(<<returned(called, cb)>>, cb.conv,
              walk_tags(cb.ds, Tail(taglist), callback, recursive, path))

\* walk that goes on to the next tag when self[tag] finds none
walk_elem_skipping(taglist, callback, recursive, path, g) ==
    IF g.err = "KeyError"
    THEN walk_tags(g.ds, Tail(taglist), callback, recursive, path)
    ELSE IF g.err # "none" THEN Res(g.ds, <<>>, g.err, g.conv)
    ELSE after(g.conv,
               walk_called(taglist, callback, recursive, path,
                           Called(path, g.ds, g.ret),
                           call(callback, g.ds, g.ret)))

\* walk, lines 718-724: g is the result of self[tag]
walk_elem(taglist, callback, recursive, path, g) ==
    IF g.err # "none" THEN Res(g.ds, <<>>, g.err, g.conv)
    ELSE after(g.conv,
               walk_called(taglist, callback, recursive, path,
                           Called(path, g.ds, g.ret),
                           call(callback, g.ds, g.ret)))

\* the loop of walk over its snapshot of the tags; the result's ret is
\* the list of the callback's invocations
walk_tags(self, taglist, callback, recursive, path) ==
    IF taglist = <<>> THEN Res(self, <<>>, "none", <<>>)
    ELSE walk_elem(taglist, callback, recursive, path,
                   getitem(self, Head(taglist)))

\* walk that never goes into a sequence
walk_flat(self, callback, recursive, path) ==
    walk_tags(self, sorted(keys(self)), callback, FALSE, path)

\* Dataset.walk
walk(self, callback, recursive, path) ==
    walk_tags(self, sorted(keys(self)), callback, recursive, path)

\* remove_private_tags that leaves the nested Datasets alone
remove_private_tags_flat(self) ==
    walk(self, [kind |-> "RemoveCallback", tags |-> {}], FALSE, <<>>)

\* Dataset.remove_private_tags
remove_private_tags(self) ==
    walk(self, [kind |-> "RemoveCallback", tags |-> {}], TRUE, <<>>)

\* the applications of pydicom.charset.decode by the invocations called
RECURSIVE applications(_)
applications(called) ==
    IF called = <<>> THEN <<>>
    ELSE Head(called).ret \o applications(Tail(called))

\* decode, line 163: w is the result of the walk
decode_walked(w) == Res(w.ds, applications(w.ret), w.err, w.conv)

\* decode whose walk goes into the sequences as well
decode_recursive(cs) ==
    IF cs.err # "none" THEN Res(cs.ds, <<>>, cs.err, cs.conv)
    ELSE after(cs.conv,
               decode_walked(walk(cs.ds,
                   [kind |-> "decode_callback", tags |-> {},
                    dicom_character_set |-> cs.ret], TRUE, <<>>)))

\* decode, lines 150-163: cs is the result of self._character_set
decode_with(cs) ==
    IF cs.err # "none" THEN Res(cs.ds, <<>>, cs.err, cs.conv)
    ELSE after(cs.conv,
               decode_walked(walk(cs.ds,
                   [kind |-> "decode_callback", tags |-> {},
                    dicom_character_set |-> cs.ret], FALSE, <<>>)))

\* Dataset.decode; the result's ret is the list of the applications of
\* pydicom.charset.decode
decode(self) == decode_with(character_set(self))

\* self and self.__dict__ after a call made on the root Dataset
ResA(r, at) ==
    [ds |-> r.ds, ret |-> r.ret, err |-> r.err, conv |-> r.conv, attrs |-> at]

\* Dataset.__setattr__
setattr(self, at, name, value) ==
    LET tag == tag_for_name(name)
    IN  IF tag # NoTag THEN ResA(setattr_tag(self, tag, value), at)
        ELSE ResA(Res(self, None, "none", <<>>), Put(at, name, value))

\* attribute lookup that answers as Dataset.get does: None for a keyword
\* that names nothing in the Dataset
getattribute_default(self, at, name) ==
    IF name \in DOMAIN at THEN Res(self, at[name], "none", <<>>)
    ELSE get_name(self, name, None)

\* Dataset.__getattr__ behind the ordinary attribute lookup
getattribute(self, at, name) ==
    IF name \in DOMAIN at THEN Res(self, at[name], "none", <<>>)
    ELSE getattr(self, name)

\* Dataset.get for a keyword key, lines 246-250: the ordinary attribute
\* lookup, AttributeError answered by the default
get_attr(self, at, key, default) ==
    get_default(getattribute(self, at, key), default)

\* Dataset.get for a tag key that lets the KeyError of line 260 through
get_tag_raising(self, key, default) == getitem(self, key)

\* Dataset.get, lines 259-263: r is the result of self.__getitem__(key)
get_tag_default(r, default) ==
    IF r.err = "KeyError" THEN Res(r.ds, default, "none", r.conv) ELSE r

\* Dataset.get for a tag key
get_tag(self, key, default) == get_tag_default(getitem(self, key), default)

\* Dataset.__delattr__
delattr(self, at, name) ==
    LET tag == tag_for_name(name)
    IN  IF tag # NoTag /\ tag # 0 /\ contains_tag(self, tag)
        THEN ResA(Res([self EXCEPT !.dict = Drop(self.dict, tag)],
                      None, "none", <<>>), at)
        ELSE IF name \in DOMAIN at
        THEN ResA(Res(self, None, "none", <<>>), Drop(at, name))
        ELSE ResA(Res(self, None, "AttributeError", <<>>), at)

\* Dataset.update: the items of the dictionary in turn, to the first failure;
\* an item is <<"name", keyword, value>> or <<"tag", key, element>>
RECURSIVE update(_, _, _)
update_next(items, r) ==
    IF r.err # "none" THEN r
    ELSE after(r.conv, update(r.ds, r.attrs, Tail(items)))

update(self, at, items) ==
    IF items = <<>> THEN ResA(Res(self, None, "none", <<>>), at)
    ELSE update_next(items,
             IF Head(items)[1] = "name"
             THEN setattr(self, at, Head(items)[2], Head(items)[3])
             ELSE ResA(setitem(self, Head(items)[2], Head(items)[3]), at))

(* ---------------- the state and the actions ---------------- *)
\* the record of the last call: what was called with what, what it returned
\* or raised, the conversions it ran, and the store it was called on
Call(op) ==
    [op |-> op, key |-> NoTag, name |-> "", arg |-> NotAnElement, val |-> None,
     items |-> <<>>, callback |-> [kind |-> "", tags |-> {}],
     key_order |-> <<>>, ret |-> NotAnElement, retval |-> None, out |-> <<>>,
     flag |-> FALSE, err |-> "none", conv |-> <<>>, pre |-> ds,
     preattrs |-> attrs]

NoAttrs == [x \in {} |-> None]

\* no call is in progress: the caller has taken the result of the last one
NoCall ==
    [op |-> "idle", key |-> NoTag, name |-> "", arg |-> NotAnElement, val |-> None,
     items |-> <<>>, callback |-> [kind |-> "", tags |-> {}],
     key_order |-> <<>>, ret |-> NotAnElement, retval |-> None, out |-> <<>>,
     flag |-> FALSE, err |-> "none", conv |-> <<>>,
     pre |-> Dataset(EmptyDict, default_encoding),
     preattrs |-> NoAttrs]

Idle == last.op = "idle"

\* the call returns to its caller, which goes on to the next call
Return ==
    /\ ~Idle
    /\ last' = NoCall
    /\ UNCHANGED <<ds, attrs>>

SetItem(key, value) ==
    LET r == setitem(ds, key, value)
    IN  /\ Idle
        /\ ds' = r.ds
        /\ last' = [Call("setitem") EXCEPT !.key = key, !.arg = value,
                                           !.err = r.err, !.conv = r.conv]
        /\ UNCHANGED attrs

Add(value) ==
    LET r == add(ds, value)
    IN  /\ Idle
        /\ ds' = r.ds
        /\ last' = [Call("add") EXCEPT !.key = value.tag, !.arg = value,
                                       !.err = r.err, !.conv = r.conv]
        /\ UNCHANGED attrs

GetItem(key) ==
    LET r == getitem(ds, key)
    IN  /\ Idle
        /\ ds' = r.ds
        /\ last' = [Call("getitem") EXCEPT !.key = key, !.ret = r.ret,
                                           !.err = r.err, !.conv = r.conv]
        /\ UNCHANGED attrs

GetItemRaw(key) ==
    LET r == get_item(ds, key)
    IN  /\ Idle
        /\ ds' = r.ds
        /\ last' = [Call("get_item") EXCEPT !.key = key, !.ret = r.ret,
                                            !.err = r.err, !.conv = r.conv]
        /\ UNCHANGED attrs

DelItem(key) ==
    LET r == delitem(ds, key)
    IN  /\ Idle
        /\ ds' = r.ds
        /\ last' = [Call("delitem") EXCEPT !.key = key, !.err = r.err]
        /\ UNCHANGED attrs

GetAttr(name) ==
    LET r == getattribute(ds, attrs, name)
    IN  /\ Idle
        /\ ds' = r.ds
        /\ last' = [Call("getattr") EXCEPT !.name = name, !.retval = r.ret,
                                           !.err = r.err, !.conv = r.conv]
        /\ UNCHANGED attrs

SetAttr(name, value) ==
    LET r == setattr(ds, attrs, name, value)
    IN  /\ Idle
        /\ ds' = r.ds
        /\ attrs' = r.attrs
        /\ last' = [Call("setattr") EXCEPT !.name = name, !.val = value,
                                           !.err = r.err, !.conv = r.conv]

DelAttr(name) ==
    LET r == delattr(ds, attrs, name)
    IN  /\ Idle
        /\ ds' = r.ds
        /\ attrs' = r.attrs
        /\ last' = [Call("delattr") EXCEPT !.name = name, !.err = r.err]

Get(key, default) ==
    LET r == get_tag(ds, key, default)
    IN  /\ Idle
        /\ ds' = r.ds
        /\ last' = [Call("get") EXCEPT !.key = key, !.arg = default,
                                       !.ret = r.ret, !.err = r.err,
                                       !.conv = r.conv]
        /\ UNCHANGED attrs

GetName(name, default) ==
    LET r == get_attr(ds, attrs, name, default)
    IN  /\ Idle
        /\ ds' = r.ds
        /\ last' = [Call("get") EXCEPT !.name = name, !.val = default,
                                       !.retval = r.ret, !.err = r.err,
                                       !.conv = r.conv]
        /\ UNCHANGED attrs

Dir(filters) ==
    /\ Idle
    /\ last' = [Call("dir") EXCEPT !.items = filters,
                                   !.out = dir(ds, filters)]
    /\ UNCHANGED <<ds, attrs>>

Contains(key) ==
    /\ Idle
    /\ last' = [Call("contains") EXCEPT !.key = key,
                                        !.flag = contains_tag(ds, key)]
    /\ UNCHANGED <<ds, attrs>>

ContainsName(name) ==
    /\ Idle
    /\ last' = [Call("contains") EXCEPT !.name = name,
                                        !.flag = contains_name(ds, name)]
    /\ UNCHANGED <<ds, attrs>>

Iterate(key_order) ==
    LET r == dataset_iter(ds, key_order)
    IN  /\ Idle
        /\ ds' = r.ds
        /\ last' = [Call("iter") EXCEPT !.key_order = key_order,
                                        !.out = r.ret, !.err = r.err,
                                        !.conv = r.conv]
        /\ UNCHANGED attrs

Update(items) ==
    LET r == update(ds, attrs, items)
    IN  /\ Idle
        /\ ds' = r.ds
        /\ attrs' = r.attrs
        /\ last' = [Call("update") EXCEPT !.items = items, !.err = r.err,
                                          !.conv = r.conv]

IterAll ==
    LET r == iterall(ds, <<>>)
    IN  /\ Idle
        /\ ds' = r.ds
        /\ last' = [Call("iterall") EXCEPT !.out = r.ret, !.err = r.err,
                                           !.conv = r.conv]
        /\ UNCHANGED attrs

Walk(callback, recursive) ==
    LET r == walk(ds, callback, recursive, <<>>)
    IN  /\ Idle
        /\ ds' = r.ds
        /\ last' = [Call("walk") EXCEPT !.callback = callback,
                                        !.flag = recursive, !.out = r.ret,
                                        !.err = r.err, !.conv = r.conv]
        /\ UNCHANGED attrs

RemovePrivateTags ==
    LET r == remove_private_tags(ds)
    IN  /\ Idle
        /\ ds' = r.ds
        /\ last' = [Call("remove_private_tags") EXCEPT !.out = r.ret,
                                                       !.err = r.err,
                                                       !.conv = r.conv]
        /\ UNCHANGED attrs

(* ---------------- the inputs of the checked runs ---------------- *)
MaxUpdate == 2

\* the sequences of at most n items of S, no key twice
RECURSIVE ItemLists(_, _)
ItemLists(S, n) ==
    IF n = 0 THEN {<<>>}
    ELSE {<<>>} \cup
         UNION {{<<it>> \o l : l \in ItemLists({x \in S : x[1] # it[1] \/ x[2] # it[2]}, n - 1)}
                : it \in S}

Decode ==
    LET r == decode(ds)
    IN  /\ Idle
        /\ ds' = r.ds
        /\ last' = [Call("decode") EXCEPT !.out = r.ret, !.err = r.err,
                                          !.conv = r.conv]
        /\ UNCHANGED attrs

\* the mappings from some of the tags to one of the values of that tag
Collections(tags, values) ==
    UNION {{d \in [T -> values] : \A t \in T : d[t].tag = t} : T \in SUBSET tags}

\* the mappings from some of the tags to any of the values
AnyCollections(tags, values) == UNION {[T -> values] : T \in SUBSET tags}

NoCallback == [kind |-> "none", tags |-> {}]

FlatTags == {SpecificCharacterSet, PrivateCreator, PrivateElement, PatientName}

FlatElements ==
    {RawDataElement(SpecificCharacterSet, "CS", <<"ISO_IR 100">>),
     RawDataElement(PatientName, "PN", <<"Doe">>),
     RawDataElement(PatientName, "PN", None),
     RawDataElement(PrivateCreator, "LO", <<"ACME">>),
     RawDataElement(PrivateElement, "UN", <<"x">>),
     DataElement(PrivateElement, "UN", <<"x", "str">>)}

FlatNames == {"SpecificCharacterSet", "PatientName", "UnknownKeyword123"}

FlatValues == {<<"Roe", "str">>}

\* the defaults handed to get: an object for a tag key, a value for a keyword
DefaultElement == [NotAnElement EXCEPT !.VR = "default"]
DefaultValue == <<"default", "str">>

FlatItems ==
    {<<"tag", PrivateElement, RawDataElement(PrivateElement, "UN", <<"x">>)>>,
     <<"name", "PatientName", <<"Roe", "str">> >>,
     <<"name", "UnknownKeyword123", <<"Roe", "str">> >>,
     <<"tag", PatientName, RawDataElement(PrivateCreator, "LO", <<"ACME">>)>>}

FlatCallbacks ==
    {NoCallback, [kind |-> "RemoveCallback", tags |-> {}]}

Init ==
    /\ ds \in {Dataset(d, default_encoding) :
                  d \in Collections(FlatTags, FlatElements)}
    /\ attrs = NoAttrs
    /\ last = NoCall

Next ==
    \/ \E value \in FlatElements \cup {NotAnElement} :
          \E key \in {value.tag, PatientName} \ {NoTag} : SetItem(key, value)
    \/ \E value \in FlatElements \cup {NotAnElement} : Add(value)
    \/ \E key \in FlatTags : GetItem(key)
    \/ \E key \in FlatTags : GetItemRaw(key)
    \/ \E key \in FlatTags : DelItem(key)
    \/ \E name \in FlatNames : GetAttr(name)
    \/ \E name \in FlatNames, value \in FlatValues : SetAttr(name, value)
    \/ \E name \in FlatNames : DelAttr(name)
    \/ \E key \in FlatTags : Get(key, DefaultElement)
    \/ \E name \in FlatNames : GetName(name, DefaultValue)
    \/ \E key \in FlatTags : Contains(key)
    \/ \E name \in FlatNames : ContainsName(name)
    \/ \E key_order \in Orders(DOMAIN ds.dict) : Iterate(key_order)
    \/ \E items \in ItemLists(FlatItems, MaxUpdate) : Update(items)
    \/ IterAll
    \/ \E callback \in FlatCallbacks, recursive \in BOOLEAN :
          Walk(callback, recursive)
    \/ RemovePrivateTags
    \/ Return

Spec == Init /\ [][Next]_vars

(* ---------------- construction from any collection ---------------- *)
\* Dataset.__init__: dict.__init__(self, *args) takes the collection as it is
CtorTags == {PatientName, PrivateElement}

InitCtor ==
    /\ ds \in {Dataset(d, default_encoding) :
                  d \in AnyCollections(CtorTags, FlatElements)}
    /\ attrs = NoAttrs
    /\ last = NoCall

NextCtor ==
    \/ \E value \in FlatElements \cup {NotAnElement} :
          \E key \in {value.tag, PatientName} \ {NoTag} : SetItem(key, value)
    \/ \E value \in FlatElements \cup {NotAnElement} : Add(value)
    \/ \E key \in FlatTags : GetItem(key)
    \/ \E key \in FlatTags : DelItem(key)
    \/ \E name \in FlatNames : GetAttr(name)
    \/ \E name \in FlatNames, value \in FlatValues : SetAttr(name, value)
    \/ \E items \in ItemLists(FlatItems, MaxUpdate) : Update(items)
    \/ Return

SpecCtor == InitCtor /\ [][NextCtor]_vars

(* ---------------- the private group ---------------- *)
PrivateTags ==
    {SpecificCharacterSet, PrivateGroupLength, PrivateCreator, PrivateElement}

PrivateElements ==
    {RawDataElement(SpecificCharacterSet, "CS", <<"ISO_IR 100">>),
     DataElement(PrivateGroupLength, "UL", <<"4", "str">>),
     RawDataElement(PrivateCreator, "LO", <<"ACME">>),
     DataElement(PrivateCreator, "LO", <<"ACME", "str">>),
     DataElement(PrivateCreator, "LO", <<"OTHER", "str">>),
     RawDataElement(PrivateElement, "UN", <<"x">>),
     DataElement(PrivateElement, "UN", <<"x", "str">>)}

InitPrivate ==
    /\ ds \in {Dataset(d, default_encoding) :
                  d \in Collections(PrivateTags, PrivateElements)}
    /\ attrs = NoAttrs
    /\ last = NoCall

NextPrivate ==
    \/ \E value \in PrivateElements \cup {NotAnElement} :
          \E key \in {value.tag, PrivateElement} \ {NoTag} : SetItem(key, value)
    \/ \E value \in PrivateElements : Add(value)
    \/ \E key \in PrivateTags : GetItem(key)
    \/ \E key \in PrivateTags : DelItem(key)
    \/ Return

SpecPrivate == InitPrivate /\ [][NextPrivate]_vars

(* ---------------- the character set ---------------- *)
CharsetTags == {SpecificCharacterSet, PatientName}

CharsetElements ==
    {RawDataElement(SpecificCharacterSet, "CS", <<"ISO_IR 100">>),
     RawDataElement(SpecificCharacterSet, "CS", <<"">>),
     DataElement(SpecificCharacterSet, "CS", <<"ISO_IR 100", "str">>),
     RawDataElement(PatientName, "PN", <<"Doe">>),
     RawDataElement(PatientName, "PN", None)}

\* the parent_encoding a Dataset is constructed with
ParentEncodings == {default_encoding, "utf8"}

InitCharset ==
    /\ ds \in {Dataset(d, e) : d \in Collections(CharsetTags, CharsetElements),
                                e \in ParentEncodings}
    /\ attrs = NoAttrs
    /\ last = NoCall

NextCharset ==
    \/ \E value \in CharsetElements : Add(value)
    \/ \E key \in CharsetTags : GetItem(key)
    \/ \E key \in CharsetTags : GetItemRaw(key)
    \/ \E key \in CharsetTags : DelItem(key)
    \/ \E name \in FlatNames : GetAttr(name)
    \/ Return

SpecCharset == InitCharset /\ [][NextCharset]_vars

(* ---------------- the names of the tags ---------------- *)
DirTags == {SpecificCharacterSet, PrivateElement, PatientName, OverlayData,
            OverlayData2}

DirElements ==
    {DataElement(SpecificCharacterSet, "CS", <<"ISO_IR 100", "str">>),
     DataElement(PrivateElement, "UN", <<"x", "str">>),
     RawDataElement(PatientName, "PN", <<"Doe">>),
     DataElement(OverlayData, "OW", <<"00", "bytes">>),
     DataElement(OverlayData2, "OW", <<"00", "bytes">>)}

\* the filters handed to dir
DirFilters ==
    {<<>>, << <<"n", "a", "m", "e">> >>, << <<"D", "A", "T", "A">> >>, << <<"S", "e", "t">>, <<"d", "a", "t", "a">> >>, << <<"x", "y", "z">> >>}

InitDir ==
    /\ ds \in {Dataset(d, default_encoding) :
                  d \in Collections(DirTags, DirElements)}
    /\ attrs = NoAttrs
    /\ last = NoCall

NextDir ==
    \/ \E filters \in DirFilters : Dir(filters)
    \/ \E value \in DirElements : Add(value)
    \/ \E key \in DirTags : DelItem(key)
    \/ Return

SpecDir == InitDir /\ [][NextDir]_vars

(* ---------------- nested stores for the traversals ---------------- *)
MaxItems == 2
MaxElems == 5

\* the elements a nested store starts with: raw as the reader leaves them,
\* decoded as a caller set them
LeafElements ==
    {RawDataElement(PatientName, "PN", <<"Doe">>),
     DataElement(PrivateElement, "UN", <<"x", "str">>)}

\* the lists of at most k Datasets, none empty, that hold m elements together,
\* table[a + 1] being the Datasets of a elements
RECURSIVE ItemSeqs(_, _, _)
ItemSeqs(table, m, k) ==
    (IF m = 0 THEN {<<>>} ELSE {}) \cup
    (IF k = 0 THEN {}
     ELSE UNION {{<<s>> \o rest : s \in table[a + 1],
                                  rest \in ItemSeqs(table, m - a, k - 1)}
                 : a \in 1..m})

\* the Datasets of n elements, the nested ones counted: some of the leaf
\* elements and, or not, a sequence of smaller Datasets
StoresOfSize(table, n) ==
    LET flat == Collections({PatientName, PrivateElement}, LeafElements)
        sized(c) == Cardinality(DOMAIN c)
    IN  {Dataset(c, default_encoding) : c \in {x \in flat : sized(x) = n}} \cup
        UNION {{Dataset(Put(c, ReferencedImageSequence,
                            DataElement(ReferencedImageSequence, "SQ", items)),
                        default_encoding)
                : items \in ItemSeqs(table, n - sized(c) - 1, MaxItems)}
               : c \in {x \in flat : sized(x) < n}}

\* the table of the Datasets of 0, 1, ... n elements, each row built from the
\* rows before it
RECURSIVE StoreTable(_)
StoreTable(n) ==
    IF n = 0 THEN <<StoresOfSize(<<>>, 0)>>
    ELSE CHOOSE next \in {Append(table, StoresOfSize(table, n))
                          : table \in {StoreTable(n - 1)}} : TRUE

\* the root stores of at most MaxElems elements: a store as above, or one
\* with a private sequence of at most one Dataset too
RootStores ==
    UNION {UNION {table[a + 1] : a \in 0..MaxElems} \cup
           UNION {UNION {{dict_setitem(s, PrivateSequence,
                              DataElement(PrivateSequence, "SQ", items))
                          : s \in table[a + 1], items \in ItemSeqs(table, m, 1)}
                         : m \in 0..(MaxElems - a - 1)}
                  : a \in 0..(MaxElems - 1)}
           : table \in {StoreTable(MaxElems)}}

WalkCallbacks ==
    {NoCallback, [kind |-> "RemoveCallback", tags |-> {}],
     [kind |-> "delete", tags |-> {ReferencedImageSequence}],
     [kind |-> "delete", tags |-> {PatientName}]}

InitWalk ==
    /\ ds \in RootStores
    /\ attrs = NoAttrs
    /\ last = NoCall

NextWalk ==
    \/ IterAll
    \/ \E callback \in WalkCallbacks, recursive \in BOOLEAN :
          Walk(callback, recursive)
    \/ RemovePrivateTags
    \/ \E key_order \in Orders(DOMAIN ds.dict) : Iterate(key_order)
    \/ Return

SpecWalk == InitWalk /\ [][NextWalk]_vars

(* ---------------- callbacks that change the store walked ---------------- *)
MutateCallbacks ==
    {[kind |-> k, tags |-> {t}] :
        k \in {"insert", "delete_next"},
        t \in {ReferencedImageSequence, PrivateElement}}

NextMutate ==
    \/ \E callback \in MutateCallbacks, recursive \in BOOLEAN :
          Walk(callback, recursive)
    \/ IterAll
    \/ Return

SpecMutate == InitWalk /\ [][NextMutate]_vars

(* ---------------- stores to decode ---------------- *)
DecodeTags == {SpecificCharacterSet, PatientName, ReferencedImageSequence}

\* the elements of a Dataset read from a file, and a name set by the caller
DecodeElements ==
    {RawDataElement(SpecificCharacterSet, "CS", <<"ISO_IR 100">>),
     RawDataElement(PatientName, "PN", <<"Doe">>),
     DataElement(PatientName, "PN", <<"Roe", "str">>)}

\* the Datasets of a sequence: with and without a character set of their
\* own, one of them with a sequence of its own
DecodeItems ==
    {Dataset(d, default_encoding) :
        d \in Collections({SpecificCharacterSet, PatientName},
                          {RawDataElement(SpecificCharacterSet, "CS",
                                          <<"ISO_IR 100">>),
                           RawDataElement(PatientName, "PN", <<"Doe">>)})
              \ {EmptyDict}}
    \cup
    {Dataset(Put(Put(EmptyDict, PatientName,
                     RawDataElement(PatientName, "PN", <<"Doe">>)),
                 ReferencedImageSequence,
                 DataElement(ReferencedImageSequence, "SQ",
                     <<Dataset(Put(EmptyDict, PatientName,
                                   RawDataElement(PatientName, "PN",
                                                  <<"Doe">>)),
                               default_encoding)>>)),
             default_encoding)}

\* the sequences of at most n Datasets
DecodeSequences(n) == UNION {[1..k -> DecodeItems] : k \in 0..n}

DecodeStores ==
    LET flat == Collections({SpecificCharacterSet, PatientName},
                            DecodeElements)
    IN  {Dataset(d, default_encoding) : d \in flat}
        \cup
        {Dataset(Put(d, ReferencedImageSequence,
                     DataElement(ReferencedImageSequence, "SQ", items)),
                 default_encoding) :
            d \in flat, items \in DecodeSequences(MaxItems)}

InitDecode ==
    /\ ds \in DecodeStores
    /\ attrs = NoAttrs
    /\ last = NoCall

NextDecode ==
    \/ Decode
    \/ \E key \in DecodeTags : GetItem(key)
    \/ \E key \in DecodeTags : DelItem(key)
    \/ Return

SpecDecode == InitDecode /\ [][NextDecode]_vars

(* ---------------- properties of the flat store ---------------- *)
\* how often x occurs in the sequence s
RECURSIVE Count(_, _)
Count(s, x) ==
    IF s = <<>> THEN 0
    ELSE (IF Head(s) = x THEN 1 ELSE 0) + Count(Tail(s), x)

Raw(d, t) == t \in DOMAIN d.dict /\ d.dict[t].cls = "RawDataElement"
Decoded(d, t) == t \in DOMAIN d.dict /\ d.dict[t].cls = "DataElement"

\* C1: whatever the order in which the keys are listed, a completed iteration
\* yields one element for each stored tag, in strictly ascending tag order
\* (so the element of t1 before that of t2 whenever t1 < t2).
IterateAscending ==
    last.op = "iter" =>
        /\ last.err = "none"
        /\ Len(last.out) = Cardinality(DOMAIN last.pre.dict)
        /\ \A t \in DOMAIN last.pre.dict :
              \E i \in 1..Len(last.out) :
                  last.out[i].tag = t /\ last.out[i] = ds.dict[t]
        /\ \A i, j \in 1..Len(last.out) :
              i < j => last.out[i].tag < last.out[j].tag

\* an iteration of three or more elements whose keys were listed in
\* descending order
IterateDescendingKeys ==
    /\ last.op = "iter"
    /\ Len(last.key_order) >= 3
    /\ \A i \in 1..(Len(last.key_order) - 1) :
          last.key_order[i] > last.key_order[i + 1]
    /\ Len(last.out) = Len(last.key_order)
    /\ last.out[1].tag = last.key_order[Len(last.key_order)]

\* C2: every stored key maps to an element whose own tag is that key.
KeyMatchesTag == \A k \in DOMAIN ds.dict : ds.dict[k].tag = k

\* the operations of the model that only read the store
ReadOps == {"getitem", "get_item", "getattr", "contains", "iter", "iterall"}
IsRead ==
    \/ last.op \in ReadOps
    \/ last.op = "walk" /\ last.callback = NoCallback

\* C3: a get of a tag stored raw converts that element once, stores the
\* decoded element under the tag and returns it (other tags are converted only
\* where the conversion reads them: the character set, the private creator);
\* a get of a tag stored decoded converts nothing and returns the stored
\* element as it is; and no read leaves a decoded entry raw, absent or
\* otherwise changed.
DecodeOnce ==
    /\ (last.op = "getitem" /\ last.key \in DOMAIN last.pre.dict) =>
          /\ last.err = "none"
          /\ Decoded(ds, last.key)
          /\ last.ret = ds.dict[last.key]
          /\ Count(last.conv, last.key) = IF Raw(last.pre, last.key) THEN 1 ELSE 0
          /\ \A t \in FlatTags : Count(last.conv, t) <= 1
          /\ Decoded(last.pre, last.key) =>
                /\ last.conv = <<>>
                /\ last.ret = last.pre.dict[last.key]
                /\ ds = last.pre
    /\ IsRead =>
          \A t \in DOMAIN last.pre.dict :
              Decoded(last.pre, t) =>
                  t \in DOMAIN ds.dict /\ ds.dict[t] = last.pre.dict[t]

\* a later get of PatientName: the entry was decoded by an earlier get (its
\* encoding is the store's character set) and this get converts nothing
DecodedGetAgain ==
    /\ last.op = "getitem"
    /\ last.key = PatientName
    /\ Decoded(last.pre, PatientName)
    /\ Len(last.pre.dict[PatientName].value) = 2
    /\ last.pre.dict[PatientName].value[2] = "latin_1"
    /\ last.conv = <<>>
    /\ last.ret = last.pre.dict[PatientName]

\* the creator tag of a private tag: same group, element = the high byte
CreatorTag(t) == Tag(group(t), elem(t) \div 256)

SetCompleted ==
    /\ last.op = "setitem"
    /\ last.arg.cls \in {"DataElement", "RawDataElement"}
    /\ last.key = last.arg.tag

\* C4: a set of a private tag t whose creator tag c is another tag present in
\* the store stores a decoded element (a raw one converted, its payload
\* kept) whose private_creator is the creator element's decoded value; with c
\* absent the element is stored as given, private_creator absent; a set of a
\* public tag or of a tag that is its own creator tag stores the element as
\* given, unstamped.
PrivateAttribution ==
    SetCompleted =>
        LET t == last.key
            c == CreatorTag(t)
        IN  /\ last.err = "none"
            /\ t \in DOMAIN ds.dict
            /\ IF is_private(t) /\ c # t /\ c \in DOMAIN last.pre.dict
               THEN /\ Decoded(ds, t)
                    /\ Decoded(ds, c)
                    /\ Len(ds.dict[c].value) = 2
                    /\ ds.dict[t].private_creator = ds.dict[c].value
                    /\ ds.dict[t].tag = t
                    /\ ds.dict[t].VR = last.arg.VR
                    /\ Len(ds.dict[t].value) = 2
                    /\ ds.dict[t].value[1] = last.arg.value[1]
                    /\ Decoded(last.pre, c) => ds.dict[c] = last.pre.dict[c]
               ELSE /\ ds.dict[t] = last.arg
                    /\ ds.dict[t].private_creator = None

\* a raw private element set while its creator is stored raw: both end up
\* decoded and the element carries the creator's decoded value
RawPrivateStamped ==
    /\ SetCompleted
    /\ last.key = PrivateElement
    /\ last.arg.cls = "RawDataElement"
    /\ Raw(last.pre, PrivateCreator)
    /\ Decoded(ds, PrivateElement)
    /\ ds.dict[PrivateElement].private_creator = <<"ACME", "latin_1">>

\* C5: a set of something that is not an element raises TypeError, a set of
\* an element under a key that is not its tag raises ValueError, and either
\* way the store is what it was before the call and nothing was converted.
SetRejected ==
    last.op = "setitem" =>
        /\ last.arg.cls \notin {"DataElement", "RawDataElement"} =>
              last.err = "TypeError" /\ ds = last.pre /\ last.conv = <<>>
        /\ (/\ last.arg.cls \in {"DataElement", "RawDataElement"}
            /\ last.key # last.arg.tag) =>
              last.err = "ValueError" /\ ds = last.pre /\ last.conv = <<>>
        /\ last.err # "none" => ds = last.pre /\ last.conv = <<>>

\* a raw private element set under another key while its creator and the
\* character set are stored raw: rejected, nothing converted
RawPrivateRejected ==
    /\ last.op = "setitem"
    /\ last.err = "ValueError"
    /\ last.arg.cls = "RawDataElement"
    /\ last.arg.tag = PrivateElement
    /\ last.key = PatientName
    /\ Raw(last.pre, PrivateCreator)
    /\ Raw(ds, PrivateCreator)
    /\ Raw(ds, SpecificCharacterSet)

\* C10: reading a keyword raises AttributeError when the dictionary has no
\* tag for it and it was not set as an attribute of the object, and when the
\* dictionary's tag for it is not in the store; when the tag is in the store
\* the read returns the value of the element, which it leaves stored decoded
\* (an entry that was raw is converted, once).
GetByName ==
    last.op = "getattr" =>
        LET tag == tag_for_name(last.name)
        IN  /\ (tag = NoTag /\ last.name \notin DOMAIN last.preattrs) =>
                  last.err = "AttributeError" /\ ds = last.pre
            /\ (tag # NoTag /\ tag \notin DOMAIN last.pre.dict) =>
                  last.err = "AttributeError" /\ ds = last.pre
            /\ (tag # NoTag /\ tag \in DOMAIN last.pre.dict) =>
                  /\ last.err = "none"
                  /\ Decoded(ds, tag)
                  /\ last.retval = ds.dict[tag].value
                  /\ Len(last.retval) = 2
                  /\ last.retval[1] =
                        IF last.pre.dict[tag].value = None THEN "Doe"
                        ELSE last.pre.dict[tag].value[1]
                  /\ Count(last.conv, tag) =
                        IF Raw(last.pre, tag) THEN 1 ELSE 0
            /\ (tag = NoTag /\ last.name \in DOMAIN last.preattrs) =>
                  last.err = "none" /\ last.retval = last.preattrs[last.name]

\* PatientName read by keyword while stored raw with its payload deferred:
\* the payload is fetched and decoded with the store's character set
DeferredNameDecoded ==
    /\ last.op = "getattr"
    /\ last.name = "PatientName"
    /\ Raw(last.pre, PatientName)
    /\ last.pre.dict[PatientName].value = None
    /\ last.err = "none"
    /\ last.retval = <<"Doe", "latin_1">>
    /\ Decoded(ds, PatientName)

(* ---------------- properties of the traversals ---------------- *)
\* the Dataset at path (sequence tag, item number, ...) below root
RECURSIVE StoreAt(_, _)
StoreAt(root, path) ==
    IF path = <<>> THEN root
    ELSE StoreAt(root.dict[path[1]].items[path[2]], Tail(Tail(path)))

\* the position of every element in and below store: the path of its Dataset
\* followed by its tag
RECURSIVE Positions(_, _)
Positions(store, path) ==
    UNION {{path \o <<t>>} \cup
           UNION {Positions(store.dict[t].items[i], path \o <<t, i>>)
                  : i \in 1..Len(store.dict[t].items)}
           : t \in DOMAIN store.dict}

\* a comes before b in dictionary order, a prefix before what extends it
RECURSIVE LexLess(_, _)
LexLess(a, b) ==
    IF a = <<>> THEN b # <<>>
    ELSE IF b = <<>> THEN FALSE
    ELSE \/ Head(a) < Head(b)
         \/ Head(a) = Head(b) /\ LexLess(Tail(a), Tail(b))

IsPrefix(a, b) == Len(a) <= Len(b) /\ SubSeq(b, 1, Len(a)) = a

\* the payload of an element, raw or decoded
Payload(e) == IF e.value = None THEN None ELSE <<e.value[1]>>

\* element b is element a, or a decoded
SameElement(a, b) ==
    /\ b.tag = a.tag
    /\ b.VR = a.VR
    /\ b.private_creator = a.private_creator
    /\ Payload(b) = Payload(a)
    /\ b.cls = a.cls \/ (a.cls = "RawDataElement" /\ b.cls = "DataElement")

\* store b is store a with some of its raw elements decoded, at every depth
RECURSIVE SameStore(_, _)
SameStore(a, b) ==
    /\ DOMAIN b.dict = DOMAIN a.dict
    /\ \A t \in DOMAIN a.dict :
          /\ SameElement(a.dict[t], b.dict[t])
          /\ Len(b.dict[t].items) = Len(a.dict[t].items)
          /\ \A i \in 1..Len(a.dict[t].items) :
                SameStore(a.dict[t].items[i], b.dict[t].items[i])

\* no private tag in store or in any Dataset nested in it
RECURSIVE NoPrivate(_)
NoPrivate(store) ==
    \A t \in DOMAIN store.dict :
        /\ ~is_private(t)
        /\ \A i \in 1..Len(store.dict[t].items) :
              NoPrivate(store.dict[t].items[i])

\* every public element of a, and of the Datasets nested in a's public
\* sequences, is in b as it was (a raw one possibly decoded)
RECURSIVE PublicKept(_, _)
PublicKept(a, b) ==
    \A t \in DOMAIN a.dict :
        ~is_private(t) =>
            /\ t \in DOMAIN b.dict
            /\ SameElement(a.dict[t], b.dict[t])
            /\ Len(b.dict[t].items) = Len(a.dict[t].items)
            /\ \A i \in 1..Len(a.dict[t].items) :
                  PublicKept(a.dict[t].items[i], b.dict[t].items[i])

PositionOf(out, i) == out[i].path \o <<out[i].elem.tag>>

\* C7: iterall yields every element of the store and of the Datasets nested in
\* it exactly once, in depth-first pre-order: positions in dictionary order,
\* so a sequence element, then the elements of its first Dataset, then those
\* of its second, then the next tag of the store that holds the sequence.
FlattenPreOrder ==
    last.op = "iterall" =>
        /\ last.err = "none"
        /\ {PositionOf(last.out, i) : i \in 1..Len(last.out)} =
              Positions(last.pre, <<>>)
        /\ \A i, j \in 1..Len(last.out) :
              i < j => LexLess(PositionOf(last.out, i), PositionOf(last.out, j))
        /\ \A i \in 1..Len(last.out) :
              /\ last.out[i].elem.cls = "DataElement"
              /\ SameElement(
                     StoreAt(last.pre, last.out[i].path).dict[last.out[i].elem.tag],
                     last.out[i].elem)
        /\ SameStore(last.pre, ds)

\* a flatten of a store with a sequence of two Datasets, the second with
\* two elements, and a tag after the sequence
FlattenTwoItems ==
    /\ last.op = "iterall"
    /\ DOMAIN last.pre.dict = {ReferencedImageSequence, PatientName}
    /\ Len(last.pre.dict[ReferencedImageSequence].items) = 2
    /\ Len(last.out) = 5
    /\ PositionOf(last.out, 1) = <<ReferencedImageSequence>>
    /\ PositionOf(last.out, 2) = <<ReferencedImageSequence, 1, PatientName>>
    /\ PositionOf(last.out, 3) = <<ReferencedImageSequence, 2, PrivateElement>>
    /\ PositionOf(last.out, 4) = <<ReferencedImageSequence, 2, PatientName>>
    /\ PositionOf(last.out, 5) = <<PatientName>>

\* C8: a recursive walk with a callback that changes nothing invokes the
\* callback on the elements iterall yields from the same store, in the same
\* order, each time with the Dataset that holds the element as its first
\* argument: the Dataset at the element's path, the element stored in it
\* under its tag.
WalkIsFlatten ==
    (last.op = "walk" /\ last.callback = NoCallback /\ last.flag) =>
        /\ last.err = "none"
        /\ [i \in 1..Len(last.out) |->
                 Visit(last.out[i].path, last.out[i].elem)]
              = iterall(last.pre, <<>>).ret
        /\ \A i \in 1..Len(last.out) :
              /\ last.out[i].elem.tag \in DOMAIN last.out[i].store.dict
              /\ last.out[i].store.dict[last.out[i].elem.tag] = last.out[i].elem
              /\ SameStore(StoreAt(last.pre, last.out[i].path), last.out[i].store)
              /\ last.out[i].path # <<>> =>
                    ~SameStore(last.pre, last.out[i].store)

\* a recursive walk that changes nothing, of a store with an element two
\* sequences deep: the callback gets the innermost Dataset with it
WalkNestedOwner ==
    /\ last.op = "walk"
    /\ last.callback = NoCallback
    /\ last.flag
    /\ \E i \in 1..Len(last.out) :
          /\ last.out[i].path =
                <<ReferencedImageSequence, 1, ReferencedImageSequence, 1>>
          /\ last.out[i].elem.tag = PatientName
          /\ DOMAIN last.out[i].store.dict = {PatientName}
    /\ PatientName \in DOMAIN last.pre.dict

\* the tags of the elements of out that the Dataset at path holds, in order
RECURSIVE TagsAt(_, _)
TagsAt(out, path) ==
    IF out = <<>> THEN <<>>
    ELSE (IF Head(out).path = path THEN <<Head(out).elem.tag>> ELSE <<>>)
         \o TagsAt(Tail(out), path)

\* C9: in a recursive walk whose callback deletes the element it is handed
\* (when its tag is one of the callback's), the walk does not raise, hands out
\* nothing from the Datasets nested in a deleted sequence, and in every
\* Dataset it walks hands out every tag that Dataset held, in ascending
\* order, the ones after a deleted tag too; the deleted tags are gone.
DeleteDuringWalk ==
    (last.op = "walk" /\ last.callback.kind = "delete" /\ last.flag) =>
        /\ last.err = "none"
        /\ \A i, j \in 1..Len(last.out) :
              last.out[i].elem.tag \in last.callback.tags =>
                  ~IsPrefix(PositionOf(last.out, i), last.out[j].path)
        /\ \A p \in {<<>>} \cup {last.out[i].path : i \in 1..Len(last.out)} :
              LET tags == TagsAt(last.out, p)
              IN  /\ {tags[i] : i \in 1..Len(tags)} =
                        DOMAIN StoreAt(last.pre, p).dict
                  /\ \A i, j \in 1..Len(tags) : i < j => tags[i] < tags[j]
        /\ \A i \in 1..Len(last.out) :
              last.out[i].elem.tag \in last.callback.tags =>
                  last.out[i].elem.tag \notin
                      DOMAIN StoreAt(ds, last.out[i].path).dict

\* the callback deletes a sequence of two Datasets from the root: nothing
\* nested is handed out, and PatientName, the tag after it, is
SequenceDeletedInWalk ==
    /\ last.op = "walk"
    /\ last.callback = [kind |-> "delete", tags |-> {ReferencedImageSequence}]
    /\ last.flag
    /\ ReferencedImageSequence \in DOMAIN last.pre.dict
    /\ Len(last.pre.dict[ReferencedImageSequence].items) = 2
    /\ TagsAt(last.out, <<>>) = <<ReferencedImageSequence, PatientName>>
    /\ Len(last.out) = 2
    /\ DOMAIN ds.dict = {PatientName}

(* ---------------- properties of the raw read and of get ---------------- *)
\* the stored entry is raw and its payload is still in the file
Deferred(d, t) == Raw(d, t) /\ d.dict[t].value = None

\* C11 as claimed: get_item of a tag stored raw, deferred or not, returns a
\* raw element and leaves the entry raw.
GetItemRawStaysRaw ==
    (last.op = "get_item" /\ Raw(last.pre, last.key)) =>
        /\ last.err = "none"
        /\ last.ret.cls = "RawDataElement"
        /\ Raw(ds, last.key)

\* C11 as the code has it: get_item of a tag stored raw with its payload
\* returns the stored raw element and changes nothing; get_item of a deferred
\* raw element reads and converts it as __getitem__ does, so it returns the
\* decoded element and that is what the store holds afterwards; get_item of
\* a decoded entry returns it unchanged.
GetItemRawUnlessDeferred ==
    (last.op = "get_item" /\ last.key \in DOMAIN last.pre.dict) =>
        /\ last.err = "none"
        /\ IF Deferred(last.pre, last.key)
           THEN /\ last.ret.cls = "DataElement"
                /\ Decoded(ds, last.key)
                /\ last.ret = ds.dict[last.key]
                /\ Count(last.conv, last.key) = 1
           ELSE /\ last.ret = last.pre.dict[last.key]
                /\ ds = last.pre
                /\ last.conv = <<>>

\* get_item of PatientName stored raw and deferred: the payload is fetched,
\* and the element comes back and is stored decoded
DeferredItemDecoded ==
    /\ last.op = "get_item"
    /\ last.key = PatientName
    /\ Deferred(last.pre, PatientName)
    /\ last.ret.cls = "DataElement"
    /\ last.ret.value[1] = "Doe"
    /\ Decoded(ds, PatientName)

\* the calls that look something up by tag, and those by keyword
TagLookups == {"getitem", "get_item", "delitem"}
NameLookups == {"getattr", "delattr"}

\* a keyword names nothing in the store d or among the attributes at
NameNotFound(d, at, name) ==
    IF tag_for_name(name) = NoTag THEN name \notin DOMAIN at
    ELSE tag_for_name(name) \notin DOMAIN d.dict

Effective(d) ==
    IF /\ SpecificCharacterSet \in DOMAIN d.dict
       /\ d.dict[SpecificCharacterSet].value # None
       /\ d.dict[SpecificCharacterSet].value[1] # ""
    THEN convert_encodings(<<d.dict[SpecificCharacterSet].value[1]>>)
    ELSE d.parent_encoding

\* C13: the conversion that a get runs on a raw entry decodes with the
\* default encoding when the tag is (0008,0005), and otherwise with the
\* converted value of the (0008,0005) element the store holds, or with the
\* store's parent encoding when it holds none or an empty one; a raw
\* (0008,0005) element read on the way is converted once, with the default
\* encoding, and the get returns.
DecodeCharset ==
    (last.op = "getitem" /\ Raw(last.pre, last.key)) =>
        /\ last.err = "none"
        /\ Decoded(ds, last.key)
        /\ Len(ds.dict[last.key].value) = 2
        /\ ds.dict[last.key].value[2] =
              IF last.key = SpecificCharacterSet THEN default_encoding
              ELSE Effective(last.pre)
        /\ last.conv =
              IF /\ last.key # SpecificCharacterSet
                 /\ Raw(last.pre, SpecificCharacterSet)
              THEN <<SpecificCharacterSet, last.key>>
              ELSE <<last.key>>
        /\ Raw(last.pre, SpecificCharacterSet) =>
              /\ Decoded(ds, SpecificCharacterSet)
              /\ ds.dict[SpecificCharacterSet].value[2] = default_encoding

\* PatientName decoded in a store constructed with another parent encoding
\* while the declaration is stored raw: the declaration wins, and is itself
\* decoded with the default encoding
DeclaredCharsetUsed ==
    /\ last.op = "getitem"
    /\ last.key = PatientName
    /\ last.pre.parent_encoding = "utf8"
    /\ Raw(last.pre, PatientName)
    /\ Raw(last.pre, SpecificCharacterSet)
    /\ last.ret.value = <<"Doe", "latin_1">>
    /\ ds.dict[SpecificCharacterSet].value = <<"ISO_IR 100", default_encoding>>

(* ---------------- properties of dir ---------------- *)
\* the names the dictionary has for the tags of the store d, blanks left out
NamesOf(d) ==
    {n \in UNION {{all_names_for_tag(t)[i]
                    : i \in 1..Len(all_names_for_tag(t))}
                   : t \in DOMAIN d.dict} : n # <<>>}

\* C14: dir returns a sorted list without a name twice; without filters
\* the names in it are the non-blank names of the tags in the store, with
\* filters those of them that hold one of the filters, case ignored.
DirSortedUnique ==
    last.op = "dir" =>
        /\ \A i, j \in 1..Len(last.out) :
              i < j => /\ str_le(last.out[i], last.out[j])
                       /\ last.out[i] # last.out[j]
        /\ {last.out[i] : i \in 1..Len(last.out)} =
              IF last.items = <<>> THEN NamesOf(ds)
              ELSE {n \in NamesOf(ds) :
                       \E k \in 1..Len(last.items) :
                           found(lower(n), lower(last.items[k]))}

(* ---------------- properties of decode ---------------- *)
\* the Dataset that holds the element at position p
Owner(root, p) == StoreAt(root, SubSeq(p, 1, Len(p) - 1))

\* the element at position p
ElementAt(root, p) == Owner(root, p).dict[p[Len(p)]]

\* the applications of pydicom.charset.decode in log to the element at p
AppliedTo(log, p) ==
    {k \in 1..Len(log) :
        log[k].path = SubSeq(p, 1, Len(p) - 1) /\ log[k].tag = p[Len(p)]}

\* the root declares a character set that is not the default one
DeclaresCharset(d) ==
    /\ SpecificCharacterSet \in DOMAIN d.dict
    /\ Effective(d) # default_encoding

LazyAttribution ==
    /\ \A t \in DOMAIN ds.dict :
          Raw(ds, t) => ds.dict[t].private_creator = None
    /\ (last.op = "getitem" /\ last.key \in DOMAIN last.pre.dict) =>
          LET t == last.key
              c == CreatorTag(t)
          IN  /\ last.err = "none"
              /\ last.ret = ds.dict[t]
              /\ Decoded(ds, t)
              /\ IF Decoded(last.pre, t)
                 THEN /\ ds = last.pre
                      /\ last.conv = <<>>
                 ELSE /\ Count(last.conv, t) = 1
                      /\ Payload(ds.dict[t]) = Payload(last.pre.dict[t])
                      /\ IF is_private(t) /\ c # t
                            /\ c \in DOMAIN last.pre.dict
                         THEN /\ Decoded(ds, c)
                              /\ Payload(ds.dict[c]) =
                                    Payload(last.pre.dict[c])
                              /\ ds.dict[t].private_creator = ds.dict[c].value
                         ELSE ds.dict[t].private_creator = None

\* the first read of a raw private element whose creator, holding OTHER, is
\* in the Dataset: the element read carries OTHER
LazilyStamped ==
    /\ last.op = "getitem"
    /\ last.key = PrivateElement
    /\ Raw(last.pre, PrivateElement)
    /\ PrivateCreator \in DOMAIN last.pre.dict
    /\ last.pre.dict[PrivateCreator].value[1] = "OTHER"
    /\ last.ret.private_creator # None
    /\ last.ret.private_creator[1] = "OTHER"

(* ---------------- properties of a walk that changes the store ---------------- *)
\* the Datasets a walk began to walk: the root and those it handed elements
\* out of
Walked(out) == {<<>>} \cup {out[i].path : i \in 1..Len(out)}

\* the tags of the Dataset at p when the walk began, in walk's order
Snapshot(root, p) == sorted(keys(StoreAt(root, p)))

\* the callback's change was made in the Dataset at p: it was handed one of
\* its tags there
Triggered(out, callback, p) ==
    \E i \in 1..Len(out) :
        out[i].path = p /\ out[i].elem.tag \in callback.tags

\* C18: a walk whose callback assigns or deletes PatientName in the Dataset
\* it is handed. In every Dataset walked the tags handed out are an initial
\* part of the tags it held when the walk began, all of them if the walk
\* ended without an exception, and each element handed out is the one the
\* Dataset held under the tag at that moment. A PatientName the callback
\* inserted is there afterwards and was not handed out; the walk of such a
\* callback never fails. The walk fails with KeyError exactly if the callback
\* deleted a PatientName that was there when the walk began and was still to
\* come; it then stops before PatientName in that Dataset, and every deletion
\* made until then is still made.
MutatingWalk ==
    (last.op = "walk" /\ last.callback.kind \in {"insert", "delete_next"}) =>
        /\ \A p \in Walked(last.out) :
              LET tags == TagsAt(last.out, p)
                  snapshot == Snapshot(last.pre, p)
              IN  /\ Len(tags) <= Len(snapshot)
                  /\ tags = SubSeq(snapshot, 1, Len(tags))
                  /\ last.err = "none" => tags = snapshot
        /\ \A i \in 1..Len(last.out) :
              /\ last.out[i].elem.tag \in DOMAIN last.out[i].store.dict
              /\ last.out[i].elem = last.out[i].store.dict[last.out[i].elem.tag]
        /\ last.err \in {"none", "KeyError"}
        /\ last.callback.kind = "insert" =>
              /\ last.err = "none"
              /\ \A p \in Walked(last.out) :
                    Triggered(last.out, last.callback, p) =>
                        /\ PatientName \in DOMAIN StoreAt(ds, p).dict
                        /\ PatientName \notin DOMAIN StoreAt(last.pre, p).dict
                              => Count(TagsAt(last.out, p), PatientName) = 0
                        /\ PatientName \in DOMAIN StoreAt(last.pre, p).dict
                              => \E k \in 1..Len(last.out) :
                                    /\ last.out[k].path = p
                                    /\ last.out[k].elem =
                                          DataElement(PatientName, "PN",
                                                      <<"New", "str">>)
        /\ last.callback.kind = "delete_next" =>
              /\ last.err = "KeyError" <=>
                    \E p \in Walked(last.out) :
                        /\ Triggered(last.out, last.callback, p)
                        /\ PatientName \in DOMAIN StoreAt(last.pre, p).dict
              /\ \A p \in Walked(last.out) :
                    Triggered(last.out, last.callback, p) =>
                        /\ PatientName \notin DOMAIN StoreAt(ds, p).dict
                        /\ Count(TagsAt(last.out, p), PatientName) = 0

\* a recursive walk whose callback deleted the root's PatientName when handed
\* the sequence: the nested Datasets and the private element were walked,
\* then the walk failed at PatientName, which stays deleted
WalkFailsAtDeleted ==
    /\ last.op = "walk"
    /\ last.callback =
          [kind |-> "delete_next", tags |-> {ReferencedImageSequence}]
    /\ last.flag
    /\ {ReferencedImageSequence, PrivateElement, PatientName}
          \subseteq DOMAIN last.pre.dict
    /\ last.pre.dict[ReferencedImageSequence].items # <<>>
    /\ last.err = "KeyError"
    /\ TagsAt(last.out, <<>>) = <<ReferencedImageSequence, PrivateElement>>
    /\ Len(last.out) > 2
    /\ PatientName \notin DOMAIN ds.dict
====
